---- MODULE Spec2Model ----
(***************************************************************************)
(* Model of the connection-profile registry and the column-encryption      *)
(* engine of klave-rust-postgre-template (database.rs, lib.rs).            *)
(*                                                                         *)
(* Every exposed command runs to completion inside one activation, so a    *)
(* command is one action.  The collaborators (ledger, key store, random    *)
(* source, SQL service) answer through Result values; each action draws    *)
(* their outcomes from small sets.                                         *)
(*                                                                         *)
(* Representation of strings that only serve as names:                     *)
(*   database ids and key names are random hex tokens; the model uses the  *)
(*   integers 1, 2, ... as their representatives, EmptyId for the empty    *)
(*   string and ALL for the registry key "ALL".                            *)
(***************************************************************************)
EXTENDS Integers, Sequences, FiniteSets, TLC

\* ---------------------------------------------------------------- bounds
\* number of database ids the random source hands out, and number of master
\* keys the key store may hold
MaxAdds == 2

\* ------------------------------------------------------------ vocabulary
\* String::new(): the id of a profile whose random id could not be drawn,
\* and the "not found" sentinel of Clients::exists
EmptyId == 0
\* the fixed aggregate key "ALL" of the registry list
ALL == -1
\* the ledger table the registry and the profiles live in
DATABASE_CLIENT_TABLE == "DatabaseClientTable"

Tenants == {"alice", "bob"}
Hosts == {"db1"}
DbNames == {"orders"}
Users == {"", "u"}
Passwords == {"p"}
Handles == {"h1"}

DBInputDetails == [host : Hosts, dbname : DbNames, user : Users, password : Passwords]

Ids == 1..MaxAdds
\* the database_id strings a payload can carry
IdInputs == Ids \cup {EmptyId, ALL}
LedgerKeys == Ids \cup {EmptyId, ALL}

Absent == [kind |-> "Absent"]
\* the table before its first write
EmptyLedger == [k \in LedgerKeys |-> Absent]

Ok(v) == [ok |-> TRUE, value |-> v]
Err(e) == [ok |-> FALSE, err |-> e]

VARIABLES
    ledger,     \* DatabaseClientTable: key -> stored value (or Absent)
    keystore,   \* names under which save_key persisted a master key
    nextId,     \* database ids handed out so far by the random source
    last        \* what the last command did and returned

vars == <<ledger, keystore, nextId, last>>

\* ------------------------------------------------------------ serde_json
\* serde writes a struct as an object of its named fields and reads it back
\* by field name; a value that lacks a field of the target struct is an error
ClientsValue(clients) == [clients |-> clients]

ClientValue(c) ==
    [database_id |-> c.database_id, db_input_details |-> c.db_input_details,
     opaque_handle |-> c.opaque_handle, client_id |-> c.client_id,
     master_key_name |-> c.master_key_name]

ClientFields == {"database_id", "db_input_details", "opaque_handle", "client_id", "master_key_name"}

IsClientsValue(v) == "clients" \in DOMAIN v
IsClientValue(v) == ClientFields \subseteq DOMAIN v

\* Option<String>::None of master_key_name
None == 0

\* ------------------------------------------------------------- sequences
Position(seq, x) ==
    IF \E i \in 1..Len(seq) : seq[i] = x
    THEN CHOOSE i \in 1..Len(seq) : seq[i] = x /\ \A j \in 1..(i - 1) : seq[j] # x
    ELSE 0

RemoveAt(seq, pos) == SubSeq(seq, 1, pos - 1) \o SubSeq(seq, pos + 1, Len(seq))

Range(seq) == {seq[i] : i \in 1..Len(seq)}

\* --------------------------------------------------------------- Clients
ClientsNew == <<>>

ClientsLoad(l) ==
    IF l[ALL] = Absent THEN Ok(ClientsNew)
    ELSE IF IsClientsValue(l[ALL]) THEN Ok(l[ALL].clients)
    ELSE Err("failed to parse client list")

\* ---------------------------------------------------------------- Client
ClientNew(database_id, caller, details) ==
    [database_id |-> database_id, db_input_details |-> details,
     opaque_handle |-> "", client_id |-> caller, master_key_name |-> None]

ClientLoad(l, caller, database_id) ==
    IF l[database_id] = Absent THEN Err("key not found")
    ELSE IF ~IsClientValue(l[database_id]) THEN Err("failed to deserialize database Client")
    ELSE IF caller # l[database_id].client_id THEN Err("Client ID mismatch")
    ELSE Ok(l[database_id])

\* one Client::save_master_key: a fresh random name, a fresh key, save_key;
\* f.point names the collaborator step that fails, if any ("key": one of the
\* three key steps, which all return before the key store is written)
FreshKeyName(ks) == Cardinality(ks) + 1

SaveMasterKey(c, ks, f) ==
    IF f.point = "key" THEN [res |-> Err("Failed to save master key"), client |-> c, keystore |-> ks]
    ELSE [res |-> Ok(TRUE),
          client |-> [c EXCEPT !.master_key_name = FreshKeyName(ks)],
          keystore |-> ks \cup {FreshKeyName(ks)}]

ClientSave(c, l, ks, caller, f) ==
    IF caller # c.client_id
    THEN [res |-> Err("Client ID mismatch"), client |-> c, ledger |-> l, keystore |-> ks]
    ELSE LET mk == SaveMasterKey(c, ks, f) IN
         IF ~mk.res.ok
         THEN [res |-> mk.res, client |-> mk.client, ledger |-> l, keystore |-> mk.keystore]
         ELSE IF f.point = "setClient"
         THEN [res |-> Err("ledger set"), client |-> mk.client, ledger |-> l, keystore |-> mk.keystore]
         ELSE [res |-> Ok(TRUE), client |-> mk.client,
               ledger |-> [l EXCEPT ![c.database_id] = ClientValue(mk.client)],
               keystore |-> mk.keystore]

\* ------------------------------------------------------ Clients, continued
ClientsSave(clients, l, setAllOk) ==
    IF setAllOk
    THEN [res |-> Ok(TRUE), ledger |-> [l EXCEPT ![ALL] = ClientsValue(clients)]]
    ELSE [res |-> Err("ledger set"), ledger |-> l]

RECURSIVE ClientsExistsFrom(_, _, _, _, _)
ClientsExistsFrom(clients, i, l, caller, details) ==
    IF i > Len(clients) THEN EmptyId
    ELSE LET c == ClientLoad(l, caller, clients[i]) IN
         IF c.ok /\ c.value.db_input_details.host = details.host
                 /\ c.value.db_input_details.dbname = details.dbname
                 /\ c.value.db_input_details.user = details.user
                 /\ c.value.db_input_details.password = details.password
         THEN clients[i]
         ELSE ClientsExistsFrom(clients, i + 1, l, caller, details)

ClientsExists(clients, l, caller, details) == ClientsExistsFrom(clients, 1, l, caller, details)

\* Clients::add; newId is what Client::new drew for the id (EmptyId when the
\* random source failed)
ClientsAdd(clients, l, ks, caller, details, newId, f) ==
    LET database_id == ClientsExists(clients, l, caller, details) IN
    IF database_id = EmptyId
    THEN LET client == ClientNew(newId, caller, details)
             sv == ClientSave(client, l, ks, caller, f)
         IN  IF ~sv.res.ok
             THEN [res |-> sv.res, ledger |-> sv.ledger, keystore |-> sv.keystore, created |-> TRUE]
             ELSE LET all == ClientsSave(Append(clients, sv.client.database_id), sv.ledger, f.point # "setAll") IN
                  IF ~all.res.ok
                  THEN [res |-> all.res, ledger |-> all.ledger, keystore |-> sv.keystore, created |-> TRUE]
                  ELSE [res |-> Ok(sv.client.database_id), ledger |-> all.ledger,
                        keystore |-> sv.keystore, created |-> TRUE]
    ELSE [res |-> Ok(database_id), ledger |-> l, keystore |-> ks, created |-> FALSE]

\* variant of Clients::delete that removes the record and rewrites the list
\* before it looks the id up
ClientsDelete_RemoveBeforeLookup(clients, l, database_id, f) ==
    LET pos == Position(clients, database_id)
        removed == [l EXCEPT ![database_id] = Absent]
        all == ClientsSave(IF pos # 0 THEN RemoveAt(clients, pos) ELSE clients, removed, TRUE)
    IN  IF pos # 0 THEN [res |-> Ok(TRUE), ledger |-> all.ledger]
        ELSE [res |-> Err("Database ID not found"), ledger |-> all.ledger]

\* Clients::delete; f.point names the ledger step that fails, if any
ClientsDelete(clients, l, database_id, f) ==
    LET pos == Position(clients, database_id) IN
    IF pos # 0
    THEN IF f.point = "remove"
         THEN [res |-> Err("ledger remove"), ledger |-> l]
         ELSE LET removed == [l EXCEPT ![database_id] = Absent]
                  all == ClientsSave(RemoveAt(clients, pos), removed, f.point # "setAll")
              IN  IF ~all.res.ok
                  THEN [res |-> all.res, ledger |-> all.ledger]
                  ELSE [res |-> Ok(TRUE), ledger |-> all.ledger]
    ELSE [res |-> Err("Database ID not found"), ledger |-> l]

RECURSIVE ClientsListFrom(_, _, _, _)
ClientsListFrom(clients, i, l, caller) ==
    IF i > Len(clients) THEN <<>>
    ELSE LET c == ClientLoad(l, caller, clients[i]) IN
         IF c.ok
         THEN <<c.value>> \o ClientsListFrom(clients, i + 1, l, caller)
         ELSE ClientsListFrom(clients, i + 1, l, caller)

\* variant of Clients::list that propagates the first load error
ClientsList_AbortOnError(clients, l, caller) ==
    IF \E i \in 1..Len(clients) : ~ClientLoad(l, caller, clients[i]).ok
    THEN Err("Failed to load client")
    ELSE Ok(ClientsListFrom(clients, 1, l, caller))

ClientsList(clients, l, caller) == Ok(ClientsListFrom(clients, 1, l, caller))

\* ------------------------------------------------------------ SQL session
\* variant of connection_string that writes the user segment even when empty
ConnectionString_AlwaysUser(c) ==
    LET withUser == "host=" \o c.db_input_details.host \o " dbname=" \o c.db_input_details.dbname
                    \o " user=" \o c.db_input_details.user
    IN  IF c.db_input_details.password # ""
        THEN withUser \o " password=" \o c.db_input_details.password ELSE withUser

\* Constructs the connection string from the DBInputDetails
ConnectionString(c) ==
    LET base == "host=" \o c.db_input_details.host \o " dbname=" \o c.db_input_details.dbname
        withUser == IF c.db_input_details.user # ""
                    THEN base \o " user=" \o c.db_input_details.user ELSE base
    IN  IF c.db_input_details.password # ""
        THEN withUser \o " password=" \o c.db_input_details.password ELSE withUser

\* variant of Client::connect that reports success whatever connection_open
\* answers
ClientConnect_IgnoreFailure(c, caller, opened) ==
    IF caller # c.client_id
    THEN [res |-> Err("Client ID mismatch"), client |-> c, sql |-> <<>>]
    ELSE [res |-> Ok(TRUE),
          client |-> IF opened.ok THEN [c EXCEPT !.opaque_handle = opened.value] ELSE c,
          sql |-> <<[op |-> "connection_open", arg |-> ConnectionString(c), ok |-> opened.ok]>>]

\* Client::connect; opened is what connection_open answers.  Every operator of
\* the session returns, next to its result, the calls it made to the SQL
\* service (sql) in the order it made them.
ClientConnect(c, caller, opened) ==
    IF caller # c.client_id
    THEN [res |-> Err("Client ID mismatch"), client |-> c, sql |-> <<>>]
    ELSE LET uri == ConnectionString(c) IN
         IF opened.ok
         THEN [res |-> Ok(TRUE), client |-> [c EXCEPT !.opaque_handle = opened.value],
               sql |-> <<[op |-> "connection_open", arg |-> uri, ok |-> TRUE]>>]
         ELSE [res |-> Err("Failed to connect to PostgreSQL"), client |-> c,
               sql |-> <<[op |-> "connection_open", arg |-> uri, ok |-> FALSE]>>]

\* variant of Client::query without the check of the client id
ClientQuery_NoOwnerCheck(c, caller, query, answer) ==
    [res |-> IF answer.kind = "error" THEN Err("Query failed")
             ELSE IF answer.kind = "unparsable" THEN Err("Failed to parse query result")
             ELSE Ok(answer.response),
     sql |-> <<[op |-> "query", handle |-> c.opaque_handle, arg |-> query,
                ok |-> answer.kind # "error"]>>]

\* Client::query; answer is what the SQL service returns for the statement:
\* an error, a text that does not parse as a PostGreResponse, or a response
ClientQuery(c, caller, query, answer) ==
    IF caller # c.client_id
    THEN [res |-> Err("Client ID mismatch"), sql |-> <<>>]
    ELSE [res |-> IF answer.kind = "error" THEN Err("Query failed")
                  ELSE IF answer.kind = "unparsable" THEN Err("Failed to parse query result")
                  ELSE Ok(answer.response),
          sql |-> <<[op |-> "query", handle |-> c.opaque_handle, arg |-> query,
                     ok |-> answer.kind # "error"]>>]

\* Client::execute; answer is what the SQL service returns
ClientExecute(c, caller, query, answer) ==
    IF caller # c.client_id
    THEN [res |-> Err("Client ID mismatch"), sql |-> <<>>]
    ELSE [res |-> IF answer.kind = "error" THEN Err("Execution failed") ELSE Ok(answer.response),
          sql |-> <<[op |-> "execute", handle |-> c.opaque_handle, arg |-> query,
                     ok |-> answer.kind # "error"]>>]

\* ------------------------------------------------------------ SQL service
\* serde_json::Value of a cell
Number(n) == [t |-> "Number", n |-> n]
String(str) == [t |-> "String", s |-> str]
\* Value::String of a hex-encoded ciphertext
EncodedString(encoded) == [t |-> "String", hex |-> encoded.hex]

\* the table of the source's test_deserialization
Columns == <<"product_id", "name", "price">>
Row1 == [product_id |-> Number(1), name |-> String("Laptop"), price |-> String("1200.00")]
Row2 == [product_id |-> Number(2), name |-> String("Mouse"), price |-> String("25.50")]
Tables == {[name |-> "products", schema |-> Columns, rows |-> rows] : rows \in {<<>>, <<Row1, Row2>>}}

Field(name) == [name |-> name]

\* what the SQL service answers to a statement on table tbl: the ordered
\* fields of the select list and the rows projected on it
Backend(tbl, query) ==
    IF query.stmt = "SELECT * FROM {} LIMIT 1"
    THEN [fields |-> [i \in 1..Len(tbl.schema) |-> Field(tbl.schema[i])],
          resultset |-> [r \in 1..(IF tbl.rows = <<>> THEN 0 ELSE 1) |->
                            [j \in 1..Len(tbl.schema) |-> tbl.rows[r][tbl.schema[j]]]]]
    ELSE [fields |-> [i \in 1..Len(query.columns) |-> Field(query.columns[i])],
          resultset |-> [r \in 1..Len(tbl.rows) |->
                            [j \in 1..Len(query.columns) |-> tbl.rows[r][query.columns[j]]]]]

Answer(tbl, query, fails) ==
    IF fails THEN [kind |-> "error"] ELSE [kind |-> "response", response |-> Backend(tbl, query)]

\* ----------------------------------------------------------------- crypto
\* utils::get_serde_value_into_bytes: the canonical bytes of a cell
GetSerdeValueIntoBytes(value) ==
    IF value.t = "Number" THEN ToString(value.n) ELSE value.s

\* crypto::derive_aes_gcm_key: HKDF of the master key with (table, column) as info
DeriveAesGcmKey(master_key, table, column) ==
    [key |-> "AES-GCM", master |-> master_key, table |-> table, column |-> column]

\* crypto::derive_iv: HKDF of the master key with (column, canonical value) as
\* info, exported, first 12 bytes
DeriveIv(master_key, column, value) ==
    [iv |-> 12, master |-> master_key, column |-> column, value |-> GetSerdeValueIntoBytes(value)]

\* klave::crypto::subtle::encrypt with AesGcmParams {iv, no additional data, tag 128}
AesGcmEncrypt(key, iv, bytes) == [ct |-> bytes, key |-> key, iv |-> iv, tag_length |-> 128]

\* hex::encode of iv || ciphertext || tag
Encode(iv, encrypted) == [hex |-> <<iv, encrypted>>]

\* klave::crypto::subtle::load_key
LoadKey(ks, master_key_name, fails) ==
    IF fails \/ master_key_name \notin ks THEN Err("Failed to load master key")
    ELSE Ok(master_key_name)

\* ------------------------------------------------- column encryption engine
ProbeQuery(table) == [stmt |-> "SELECT * FROM {} LIMIT 1", table |-> table]

\* "SELECT {},{} FROM {}" of primary_key_field, columns.join(","), table
SelectQuery(primary_key_field, columns, table) ==
    [stmt |-> "SELECT {},{} FROM {}", columns |-> <<primary_key_field>> \o columns, table |-> table]

\* Client::get_table_properties
GetTableProperties(c, caller, table_name, answer) ==
    IF caller # c.client_id
    THEN [res |-> Err("Client ID mismatch"), sql |-> <<>>]
    ELSE LET q == ClientQuery(c, caller, ProbeQuery(table_name), answer) IN
         [res |-> IF q.res.ok THEN Ok(q.res.value.fields) ELSE q.res, sql |-> q.sql]

\* Client::get_columns_to_encrypt
GetColumnsToEncrypt(c, caller, primary_key_field, db_table, answer) ==
    IF caller # c.client_id
    THEN [res |-> Err("Client ID mismatch"), sql |-> <<>>]
    ELSE ClientQuery(c, caller, SelectQuery(primary_key_field, db_table.columns, db_table.table), answer)

\* the body of the cell loop of encrypt_columns for one non-key cell
EncryptCell(master_key, table, column, value) ==
    LET value_in_bytes == GetSerdeValueIntoBytes(value)
        aes_gcm_key == DeriveAesGcmKey(master_key, table, column)
        iv == DeriveIv(master_key, column, value)
        encrypted_value == AesGcmEncrypt(aes_gcm_key, iv, value_in_bytes)
    IN  EncodedString(Encode(iv, encrypted_value))

CellPoints == {"bytes", "deriveKey", "deriveIv", "encrypt"}

CellError(point) ==
    IF point = "bytes" THEN Err("Failed to convert value to bytes")
    ELSE IF point = "encrypt" THEN Err("Failed to encrypt value")
    ELSE Err("Failed to derive AES-GCM key")

\* variant of the cell loop without the skip of position 0
ProcessRows_EncryptKey(rows, fields, master_key, table, f) ==
    Ok([idx \in 1..Len(rows) |->
          [idy \in 1..Len(rows[idx]) |->
              EncryptCell(master_key, table, fields[idy].name, rows[idx][idy])]])

\* variant of the cell loop that logs a failed cell and goes on
ProcessRows_ContinueOnError(rows, fields, master_key, table, f) ==
    Ok([idx \in 1..Len(rows) |->
          [idy \in 1..Len(rows[idx]) |->
              IF idy = 1 \/ (f.point \in CellPoints /\ f.cell = <<idx, idy>>)
              THEN rows[idx][idy]
              ELSE EncryptCell(master_key, table, fields[idy].name, rows[idx][idy])]])

\* the cell loop of encrypt_columns: position 0 of a row is skipped, every
\* other cell is encrypted under the name fields[idy] of the schema probe.
\* f.point, f.cell: the step and the cell <<row, position>> (counted from 1)
\* at which a conversion or crypto call fails; fields[idy] past the end of the
\* probe's fields panics, in the first row
ProcessRows(rows, fields, master_key, table, f) ==
    IF rows = <<>> THEN Ok(rows)
    ELSE IF /\ f.point \in CellPoints
            /\ f.cell[1] \in 1..Len(rows)
            /\ f.cell[2] \in 2..Len(rows[1])
            /\ (Len(rows[1]) <= Len(fields) \/ (f.cell[1] = 1 /\ f.cell[2] <= Len(fields)))
    THEN CellError(f.point)
    ELSE IF Len(rows[1]) > Len(fields) THEN Err("panic: index out of bounds")
    ELSE Ok([idx \in 1..Len(rows) |->
               [idy \in 1..Len(rows[idx]) |->
                   IF idy = 1 THEN rows[idx][idy]
                   ELSE EncryptCell(master_key, table, fields[idy].name, rows[idx][idy])]])

\* utils::flatten_vec_of_vec_values_to_single_string: the rows of the VALUES list
FlattenVecOfVecValues(processed_rows) == processed_rows

\* variant of build_update_query without the check for an empty row list
BuildUpdateQuery_AllowEmpty(processed_rows, fields, table) ==
    Ok([stmt |-> "WITH new_values ({}) AS (VALUES {}) UPDATE {} SET {} FROM new_values WHERE {}.{} = new_values.{}",
        new_values |-> [i \in 1..Len(fields) |-> fields[i].name],
        values |-> FlattenVecOfVecValues(processed_rows),
        table |-> table,
        set |-> [i \in 1..Len(fields) |-> fields[i].name],
        pk |-> fields[1].name])

\* Client::build_update_query
BuildUpdateQuery(processed_rows, fields, table) ==
    IF processed_rows = <<>> THEN Err("No rows to update")
    ELSE LET pk == fields[1].name
             column_names == [i \in 1..Len(fields) |-> fields[i].name]
         IN  Ok([stmt |-> "WITH new_values ({}) AS (VALUES {}) UPDATE {} SET {} FROM new_values WHERE {}.{} = new_values.{}",
                 new_values |-> column_names,
                 values |-> FlattenVecOfVecValues(processed_rows),
                 table |-> table,
                 set |-> column_names,
                 pk |-> pk])

\* Client::update; answer is what the SQL service returns for the statement
Update(c, caller, processed_rows, fields, table, answer) ==
    LET query == BuildUpdateQuery(processed_rows, fields, table) IN
    IF ~query.ok THEN [res |-> query, sql |-> <<>>]
    ELSE [res |-> Ok(TRUE), sql |-> ClientExecute(c, caller, query.value, answer).sql]

\* Client::encrypt_columns on the table tbl of the SQL service; f names the
\* collaborator step that fails, if any.  reported: "Table ... successfully
\* encrypted" was sent; read: the rows the select returned
EncryptColumns(c, ks, caller, db_table, tbl, f) ==
    IF caller # c.client_id
    THEN [res |-> Err("Client ID mismatch"), sql |-> <<>>, reported |-> FALSE, read |-> <<>>]
    ELSE
    LET probe == GetTableProperties(c, caller, db_table.table,
                                    Answer(tbl, ProbeQuery(db_table.table), f.point = "probe"))
    IN
    IF ~probe.res.ok
    THEN [res |-> probe.res, sql |-> probe.sql, reported |-> FALSE, read |-> <<>>]
    ELSE
    LET fields == probe.res.value
        select == GetColumnsToEncrypt(c, caller, db_table.primary_key, db_table,
                      Answer(tbl, SelectQuery(db_table.primary_key, db_table.columns, db_table.table),
                             f.point = "select"))
    IN
    IF ~select.res.ok
    THEN [res |-> select.res, sql |-> probe.sql \o select.sql, reported |-> FALSE, read |-> <<>>]
    ELSE
    LET answer == select.res.value
        read == answer.resultset
        master_key == IF c.master_key_name = None THEN Err("Master key name not set")
                      ELSE LoadKey(ks, c.master_key_name, f.point = "loadKey")
    IN
    IF ~master_key.ok
    THEN [res |-> master_key, sql |-> probe.sql \o select.sql, reported |-> FALSE, read |-> read]
    ELSE
    LET processed_rows == ProcessRows(read, fields, master_key.value, db_table.table, f) IN
    IF ~processed_rows.ok
    THEN [res |-> processed_rows, sql |-> probe.sql \o select.sql, reported |-> FALSE, read |-> read]
    ELSE
    LET upd == Update(c, caller, processed_rows.value, answer.fields, db_table.table,
                      IF f.point = "execute" THEN [kind |-> "error"]
                      ELSE [kind |-> "response", response |-> "UPDATE"])
    IN
    IF ~upd.res.ok
    THEN [res |-> upd.res, sql |-> probe.sql \o select.sql \o upd.sql, reported |-> FALSE, read |-> read]
    ELSE [res |-> Ok(TRUE), sql |-> probe.sql \o select.sql \o upd.sql, reported |-> TRUE, read |-> read]

\* --------------------------------------------------- encrypted query builder
\* the body of the value loop of build_encrypted_query for one lookup value
EncryptLookup(master_key, table, column, value) ==
    LET value_in_bytes == value
        aes_gcm_key == DeriveAesGcmKey(master_key, table, column)
        iv == DeriveIv(master_key, column, String(value))
        encrypted_value == AesGcmEncrypt(aes_gcm_key, iv, value_in_bytes)
    IN  Encode(iv, encrypted_value)

\* Client::build_encrypted_query; f names the step and the value at which a
\* crypto call fails, if any
BuildEncryptedQuery(c, ks, input, f) ==
    LET master_key == IF c.master_key_name = None THEN Err("Master key name not set")
                      ELSE LoadKey(ks, c.master_key_name, f.point = "loadKey")
    IN
    IF ~master_key.ok THEN master_key
    ELSE IF f.point \in {"deriveKey", "deriveIv", "encrypt"} /\ f.cell[1] \in 1..Len(input.values)
    THEN CellError(f.point)
    ELSE Ok([stmt |-> "SELECT * FROM {} WHERE {} in ({})",
             table |-> input.table,
             column |-> input.encrypted_column,
             values |-> [i \in 1..Len(input.values) |->
                            EncryptLookup(master_key.value, input.table,
                                          input.encrypted_column, input.values[i])]])

\* ---------------------------------------------------------------- commands
AddFailures == [rngIdFails : BOOLEAN,
                point : {"none", "key", "setClient", "setAll"}]
DeleteFailures == [point : {"none", "remove", "setAll"}]

Init ==
    /\ ledger = EmptyLedger
    /\ keystore = {}
    /\ nextId = 0
    /\ last = [cmd |-> "none"]

db_setup ==
    \E caller \in Tenants, details \in DBInputDetails, f \in AddFailures :
    \E loaded \in {ClientsLoad(ledger)} :
        IF ~loaded.ok
        THEN /\ last' = [cmd |-> "db_setup", caller |-> caller, details |-> details,
                         res |-> loaded, created |-> FALSE]
             /\ UNCHANGED <<ledger, keystore, nextId>>
        ELSE /\ ClientsExists(loaded.value, ledger, caller, details) = EmptyId
                   => (Cardinality(keystore) < MaxAdds /\ (~f.rngIdFails => nextId < MaxAdds))
             /\ \E newId \in {IF f.rngIdFails THEN EmptyId ELSE nextId + 1} :
                \E r \in {ClientsAdd(loaded.value, ledger, keystore, caller, details, newId, f)} :
                 /\ ledger' = r.ledger
                 /\ keystore' = r.keystore
                 /\ nextId' = IF r.created /\ ~f.rngIdFails /\ r.ledger[newId] # Absent
                              THEN nextId + 1 ELSE nextId
                 /\ last' = [cmd |-> "db_setup", caller |-> caller, details |-> details,
                             res |-> r.res, created |-> r.created]

sql_delete ==
    \E caller \in Tenants, database_id \in IdInputs, f \in DeleteFailures :
    \E loaded \in {ClientsLoad(ledger)} :
        IF ~loaded.ok
        THEN /\ last' = [cmd |-> "sql_delete", caller |-> caller, database_id |-> database_id,
                         res |-> loaded]
             /\ UNCHANGED <<ledger, keystore, nextId>>
        ELSE \E r \in {ClientsDelete(loaded.value, ledger, database_id, f)} :
             /\ ledger' = r.ledger
             /\ last' = [cmd |-> "sql_delete", caller |-> caller, database_id |-> database_id,
                         res |-> r.res]
             /\ UNCHANGED <<keystore, nextId>>

\* variant of sql_list that rewrites the registry list with the ids it listed
sql_list_PruneRegistry ==
    \E caller \in Tenants :
    \E loaded \in {ClientsLoad(ledger)} :
        /\ loaded.ok
        /\ \E r \in {ClientsList(loaded.value, ledger, caller)} :
            /\ last' = [cmd |-> "sql_list", caller |-> caller, res |-> r]
            /\ ledger' = ClientsSave([i \in 1..Len(r.value) |-> r.value[i].database_id],
                                     ledger, TRUE).ledger
        /\ UNCHANGED <<keystore, nextId>>

sql_list ==
    \E caller \in Tenants :
    \E loaded \in {ClientsLoad(ledger)} :
        /\ last' = [cmd |-> "sql_list", caller |-> caller,
                    res |-> IF loaded.ok THEN ClientsList(loaded.value, ledger, caller) ELSE loaded]
        /\ UNCHANGED <<ledger, keystore, nextId>>

\* ------------------------------------------------------- session commands
ConnectOutcomes == {Err("connection refused")} \cup {Ok(h) : h \in Handles}
SqlInputs == {"SELECT 1"}
QueryAnswers == {[kind |-> "error"], [kind |-> "unparsable"],
                 [kind |-> "response", response |-> [fields |-> <<>>, resultset |-> <<>>]]}
ExecuteAnswers == {[kind |-> "error"], [kind |-> "response", response |-> "OK"]}

ColumnSet == {Columns[i] : i \in 1..Len(Columns)}
\* the lists of target columns a request can name next to its primary key:
\* the other columns of the table, any subset of them in any order
ColumnLists(primary_key) ==
    {cs \in UNION {[1..n -> ColumnSet \ {primary_key}] : n \in 1..(Len(Columns) - 1)} :
        \A i, j \in 1..Len(cs) : i # j => cs[i] # cs[j]}

DBTable(database_id) ==
    {[database_id |-> database_id, table |-> "products", columns |-> cs, primary_key |-> pk] :
        <<pk, cs>> \in {<<k, l>> \in ColumnSet \X UNION {ColumnLists(k) : k \in ColumnSet} :
                          l \in ColumnLists(k)}}

LookupValues == {"1", "Laptop"}
ReadEncryptedTableInput(database_id) ==
    [database_id : {database_id}, table : {"products"}, encrypted_column : ColumnSet,
     values : {<<v>> : v \in LookupValues}]

FailCells == {<<1, 2>>, <<2, 2>>}
EncryptFailures ==
    {[point |-> p, cell |-> <<0, 0>>] : p \in {"none", "probe", "select", "loadKey", "execute"}}
    \cup {[point |-> p, cell |-> c] : p \in CellPoints, c \in FailCells}
QueryBuildFailures ==
    {[point |-> p, cell |-> <<0, 0>>] : p \in {"none", "loadKey", "query"}}
    \cup {[point |-> p, cell |-> <<1, 1>>] : p \in {"deriveKey", "deriveIv", "encrypt"}}

\* the part shared by the four session commands: Client::load, then connect.
\* A failed step ends the command
Failed(cmd, caller, database_id, res, client, sql) ==
    /\ last' = [cmd |-> cmd, caller |-> caller, database_id |-> database_id,
                res |-> res, sql |-> sql, client |-> client, reported |-> FALSE]
    /\ UNCHANGED <<ledger, keystore, nextId>>

\* variant of sql_query that stores the profile after a successful connect
sql_query_SaveAfterConnect ==
    \E caller \in Tenants, database_id \in IdInputs, opened \in ConnectOutcomes :
    \E loaded \in {ClientLoad(ledger, caller, database_id)} :
        /\ loaded.ok
        /\ \E conn \in {ClientConnect(loaded.value, caller, opened)} :
            /\ conn.res.ok
            /\ ledger' = [ledger EXCEPT ![database_id] = ClientValue(conn.client)]
            /\ last' = [cmd |-> "sql_query", caller |-> caller, database_id |-> database_id,
                        res |-> conn.res, sql |-> conn.sql, client |-> conn.client,
                        reported |-> FALSE]
        /\ UNCHANGED <<keystore, nextId>>

sql_query ==
    \E caller \in Tenants, database_id \in IdInputs :
    \E loaded \in {ClientLoad(ledger, caller, database_id)} :
        IF ~loaded.ok THEN Failed("sql_query", caller, database_id, loaded, None, <<>>)
        ELSE \E opened \in ConnectOutcomes :
             \E conn \in {ClientConnect(loaded.value, caller, opened)} :
                IF ~conn.res.ok
                THEN Failed("sql_query", caller, database_id, conn.res, conn.client, conn.sql)
                ELSE \E input \in SqlInputs, answer \in QueryAnswers :
                     \E q \in {ClientQuery(conn.client, caller, input, answer)} :
                        /\ last' = [cmd |-> "sql_query", caller |-> caller,
                                    database_id |-> database_id, res |-> q.res,
                                    sql |-> conn.sql \o q.sql, client |-> conn.client,
                                    reported |-> FALSE]
                        /\ UNCHANGED <<ledger, keystore, nextId>>

sql_execute ==
    \E caller \in Tenants, database_id \in IdInputs :
    \E loaded \in {ClientLoad(ledger, caller, database_id)} :
        IF ~loaded.ok THEN Failed("sql_execute", caller, database_id, loaded, None, <<>>)
        ELSE \E opened \in ConnectOutcomes :
             \E conn \in {ClientConnect(loaded.value, caller, opened)} :
                IF ~conn.res.ok
                THEN Failed("sql_execute", caller, database_id, conn.res, conn.client, conn.sql)
                ELSE \E input \in SqlInputs, answer \in ExecuteAnswers :
                     \E q \in {ClientExecute(conn.client, caller, input, answer)} :
                        /\ last' = [cmd |-> "sql_execute", caller |-> caller,
                                    database_id |-> database_id, res |-> q.res,
                                    sql |-> conn.sql \o q.sql, client |-> conn.client,
                                    reported |-> FALSE]
                        /\ UNCHANGED <<ledger, keystore, nextId>>

execute_table_encryption ==
    \E caller \in Tenants, database_id \in IdInputs :
    \E loaded \in {ClientLoad(ledger, caller, database_id)} :
        IF ~loaded.ok
        THEN Failed("execute_table_encryption", caller, database_id, loaded, None, <<>>)
        ELSE \E opened \in ConnectOutcomes :
             \E conn \in {ClientConnect(loaded.value, caller, opened)} :
                IF ~conn.res.ok
                THEN Failed("execute_table_encryption", caller, database_id, conn.res,
                            conn.client, conn.sql)
                ELSE \E db_table \in DBTable(database_id), tbl \in Tables, f \in EncryptFailures :
                     \E r \in {EncryptColumns(conn.client, keystore, caller, db_table, tbl, f)} :
                        /\ last' = [cmd |-> "execute_table_encryption", caller |-> caller,
                                    database_id |-> database_id, res |-> r.res,
                                    sql |-> conn.sql \o r.sql, client |-> conn.client,
                                    reported |-> r.reported, db_table |-> db_table,
                                    read |-> r.read, f |-> f]
                        /\ UNCHANGED <<ledger, keystore, nextId>>

read_encrypted_table ==
    \E caller \in Tenants, database_id \in IdInputs :
    \E loaded \in {ClientLoad(ledger, caller, database_id)} :
        IF ~loaded.ok
        THEN Failed("read_encrypted_table", caller, database_id, loaded, None, <<>>)
        ELSE \E opened \in ConnectOutcomes :
             \E conn \in {ClientConnect(loaded.value, caller, opened)} :
                IF ~conn.res.ok
                THEN Failed("read_encrypted_table", caller, database_id, conn.res,
                            conn.client, conn.sql)
                ELSE \E input \in ReadEncryptedTableInput(database_id), f \in QueryBuildFailures :
                     \E encrypted_query \in {BuildEncryptedQuery(conn.client, keystore, input, f)} :
                        IF ~encrypted_query.ok
                        THEN /\ last' = [cmd |-> "read_encrypted_table", caller |-> caller,
                                         database_id |-> database_id, res |-> encrypted_query,
                                         sql |-> conn.sql, client |-> conn.client,
                                         reported |-> FALSE, input |-> input, f |-> f]
                             /\ UNCHANGED <<ledger, keystore, nextId>>
                        ELSE \E q \in {ClientQuery(conn.client, caller, encrypted_query.value,
                                          IF f.point = "query" THEN [kind |-> "error"]
                                          ELSE [kind |-> "response",
                                                response |-> [fields |-> <<>>, resultset |-> <<>>]])} :
                             /\ last' = [cmd |-> "read_encrypted_table", caller |-> caller,
                                         database_id |-> database_id, res |-> q.res,
                                         sql |-> conn.sql \o q.sql, client |-> conn.client,
                                         reported |-> FALSE, input |-> input, f |-> f]
                             /\ UNCHANGED <<ledger, keystore, nextId>>

\* ---------------------------------------------------------- specifications
Next == db_setup \/ sql_delete \/ sql_list

\* the registry commands, from the empty ledger
Spec == Init /\ [][Next]_vars

\* the commands that only read the ledger, on one that two db_setup commands built: the
\* scenario's profile for alice, then the same details for bob
ScenarioDetails == [host |-> "db1", dbname |-> "orders", user |-> "u", password |-> "p"]
NoAddFailure == [rngIdFails |-> FALSE, point |-> "none"]
Seed1 == ClientsAdd(ClientsNew, EmptyLedger, {}, "alice", ScenarioDetails, 1, NoAddFailure)
Seed2 == ClientsAdd(ClientsLoad(Seed1.ledger).value, Seed1.ledger, Seed1.keystore,
                    "bob", ScenarioDetails, 2, NoAddFailure)

InitSession ==
    /\ ledger = Seed2.ledger
    /\ keystore = Seed2.keystore
    /\ nextId = 2
    /\ last = [cmd |-> "db_setup", caller |-> "bob", details |-> ScenarioDetails,
               res |-> Seed2.res, created |-> TRUE]

NextSession ==
    sql_list \/ sql_query \/ sql_execute \/ execute_table_encryption \/ read_encrypted_table

SpecSession == InitSession /\ [][NextSession]_vars

\* ------------------------------------------------------ registry properties
\* the persisted registry list (empty when "ALL" was never written)
Registry == IF ledger[ALL] = Absent THEN <<>> ELSE ledger[ALL].clients

\* the ids that have a persisted profile record
Persisted == {k \in LedgerKeys \ {ALL} : ledger[k] # Absent}

\* C1: two successive add(details) calls by the same caller that both return
\* an id return the same id, and the second call changes neither the registry
\* list nor any record.
C1_AddIdempotent ==
    [][(/\ last.cmd = "db_setup" /\ last.res.ok
        /\ last'.cmd = "db_setup" /\ last'.res.ok
        /\ last'.caller = last.caller
        /\ last'.details = last.details)
       => (last'.res = last.res /\ ledger' = ledger /\ keystore' = keystore)]_vars

\* C2: delete-profile invoked by an identity that is not the owning tenant of
\* the profile fails and leaves the registry list and the stored record
\* untouched.
C2_NonOwnerDeleteRejected ==
    [][(/\ last'.cmd = "sql_delete"
        /\ last'.database_id # ALL
        /\ ledger[last'.database_id] # Absent
        /\ ledger[last'.database_id].client_id # last'.caller)
       => (~last'.res.ok /\ ledger' = ledger)]_vars

\* C3: in every reachable state the ids in the persisted registry list are
\* exactly the ids that have a persisted profile record.
C3_RegistryMatchesRecords == Range(Registry) = Persisted

\* C4: delete of an id that is not in the registry returns the not-found error
\* and changes neither the registry list nor any stored record.
C4_DeleteAbsentNoMutation ==
    [][(/\ last'.cmd = "sql_delete"
        /\ last'.database_id \notin Range(Registry))
       => (/\ last'.res = Err("Database ID not found")
           /\ ledger' = ledger
           /\ keystore' = keystore)]_vars

C4_Witness ==
    /\ last.cmd = "sql_delete"
    /\ last.res = Err("Database ID not found")
    /\ Registry # <<>>
    /\ last.database_id \notin Range(Registry)
    /\ last.database_id \in Persisted

\* C5: after a successful delete(id) the persisted registry excludes id, the
\* record of id is gone (loading it fails for every caller) and list() does
\* not return it.
C5_DeleteRemovesBoth ==
    (last.cmd = "sql_delete" /\ last.res.ok)
    => (/\ last.database_id \notin Range(Registry)
        /\ ledger[last.database_id] = Absent
        /\ \A t \in Tenants :
              /\ ~ClientLoad(ledger, t, last.database_id).ok
              /\ \A i \in 1..Len(ClientsList(Registry, ledger, t).value) :
                    ClientsList(Registry, ledger, t).value[i].database_id # last.database_id)

\* the profiles list() has to return to caller: those of the registry, in
\* registry order, whose record is present, well-formed and owned by caller
Listable(id, caller) ==
    /\ ledger[id] # Absent
    /\ IsClientValue(ledger[id])
    /\ ledger[id].client_id = caller

RECURSIVE ExpectedList(_, _)
ExpectedList(ids, caller) ==
    IF ids = <<>> THEN <<>>
    ELSE (IF Listable(Head(ids), caller) THEN <<ledger[Head(ids)]>> ELSE <<>>)
         \o ExpectedList(Tail(ids), caller)

\* C10: list returns Ok with exactly the profiles, in registry order, whose
\* records load and are owned by the caller; the other entries are skipped.
C10_ListSkipsFailures ==
    last.cmd = "sql_list"
    => (last.res.ok /\ last.res.value = ExpectedList(Registry, last.caller))

C10_Witness ==
    /\ last.cmd = "sql_list"
    /\ last.res.ok
    /\ Len(last.res.value) >= 1
    /\ \E i \in 1..Len(Registry) : ~Listable(Registry[i], last.caller)

\* ------------------------------------------------ encryption engine properties
\* the calls of one kind among the calls a command made to the SQL service
Calls(op) == SelectSeq(last.sql, LAMBDA e : e.op = op)

\* the last command reached encrypt_columns
EncryptRan == last.cmd = "execute_table_encryption" /\ "db_table" \in DOMAIN last

NoFailure == [point |-> "none", cell |-> <<0, 0>>]

\* C6: for every cell of a column that encrypt_columns processed, the
\* ciphertext build_encrypted_query generates on the same profile for the
\* same (table, column, value) equals the ciphertext encrypt_columns stored.
C6_QueryMatchesStored ==
    (EncryptRan /\ last.res.ok /\ Calls("execute") # <<>> /\ Calls("execute")[1].ok)
    => LET stored == Calls("execute")[1].arg.values IN
       \A idx \in 1..Len(stored) : \A idy \in 2..Len(stored[idx]) :
          LET query == BuildEncryptedQuery(last.client, keystore,
                          [database_id |-> last.database_id,
                           table |-> last.db_table.table,
                           encrypted_column |-> last.db_table.columns[idy - 1],
                           values |-> <<GetSerdeValueIntoBytes(last.read[idx][idy])>>],
                          NoFailure)
          IN  query.ok /\ EncodedString(query.value.values[1]) = stored[idx][idy]

\* C7: in every row of the bulk update encrypt_columns builds, the value in
\* the primary-key position is the value read for that row, and the update
\* joins the new values to the table on the request's primary-key column.
C7_PrimaryKeyUntouched ==
    EncryptRan
    => \A k \in 1..Len(Calls("execute")) :
          LET update == Calls("execute")[k].arg IN
          /\ update.pk = last.db_table.primary_key
          /\ update.new_values[1] = last.db_table.primary_key
          /\ Len(update.values) = Len(last.read)
          /\ \A idx \in 1..Len(update.values) : update.values[idx][1] = last.read[idx][1]

C7_Witness ==
    /\ EncryptRan
    /\ last.res.ok
    /\ Calls("execute") # <<>>
    /\ Len(last.read) = 2
    /\ last.db_table.primary_key # Columns[1]

\* the cell at which the injected failure strikes is one the select returned
FailedCellRead ==
    /\ last.f.point \in CellPoints
    /\ last.f.cell[1] \in 1..Len(last.read)
    /\ last.f.cell[2] \in 2..Len(last.read[1])

\* a cell of the bulk update holds the ciphertext of the cell that was read
IsCiphertextOf(cell, plain) ==
    /\ cell.t = "String"
    /\ "hex" \in DOMAIN cell
    /\ cell.hex[2].ct = GetSerdeValueIntoBytes(plain)

\* C8: encrypt_columns makes no partial write: a failed schema probe returns
\* an error before the row select and any write; a failed master-key load or
\* cell step returns an error without the bulk update; the execute is issued
\* at most once, as the last call, with every non-key cell of every row
\* encrypted.
C8_NoPartialWrites ==
    EncryptRan
    => /\ Len(Calls("execute")) <= 1
       /\ last.f.point = "probe"
            => (~last.res.ok /\ Len(Calls("query")) = 1 /\ Calls("execute") = <<>>)
       /\ last.f.point = "loadKey" => (~last.res.ok /\ Calls("execute") = <<>>)
       /\ FailedCellRead => (~last.res.ok /\ Calls("execute") = <<>>)
       /\ ~last.res.ok => Calls("execute") = <<>>
       /\ Calls("execute") # <<>>
            => /\ last.sql[Len(last.sql)].op = "execute"
               /\ Len(Calls("execute")[1].arg.values) = Len(last.read)
               /\ \A idx \in 1..Len(last.read) : \A idy \in 2..Len(last.read[idx]) :
                     IsCiphertextOf(Calls("execute")[1].arg.values[idx][idy], last.read[idx][idy])

C8_Witness ==
    /\ EncryptRan
    /\ FailedCellRead
    /\ last.f.cell = <<2, 2>>
    /\ ~last.res.ok
    /\ Calls("execute") = <<>>

\* C9: when the SQL execute of the bulk update fails, encrypt_columns returns
\* an error and the command does not report the table as successfully
\* encrypted.
C9_ExecuteFailureSurfaces ==
    (EncryptRan /\ \E k \in 1..Len(Calls("execute")) : ~Calls("execute")[k].ok)
    => (~last.res.ok /\ ~last.reported)

\* ------------------------------------------------ the Client object's methods
\* the details a profile can carry: user and password segments are optional
SessionDetails == [host : Hosts, dbname : DbNames, user : {"", "u"}, password : {"", "p"}]

SessionCalls == {"connect", "query", "execute", "encrypt_columns"}

\* a Client as Client::load returns it: the record a db_setup by owner stored
InitClient ==
    \E owner \in Tenants, details \in SessionDetails :
    \E r \in {ClientsAdd(ClientsNew, EmptyLedger, {}, owner, details, 1, NoAddFailure)} :
        /\ ledger = r.ledger
        /\ keystore = r.keystore
        /\ nextId = 1
        /\ last = [cmd |-> "load", caller |-> owner, res |-> Ok(TRUE), sql |-> <<>>,
                   client |-> ClientLoad(r.ledger, owner, r.res.value).value]

\* the methods of the in-memory Client last.client, each called under the
\* identity caller that utils::get_client_id() reports at the time of the call
connect ==
    \E caller \in Tenants, opened \in ConnectOutcomes :
    \E r \in {ClientConnect(last.client, caller, opened)} :
        /\ last' = [cmd |-> "connect", caller |-> caller, res |-> r.res, sql |-> r.sql,
                    client |-> r.client, opened |-> opened]
        /\ UNCHANGED <<ledger, keystore, nextId>>

query ==
    \E caller \in Tenants, input \in SqlInputs, answer \in QueryAnswers :
    \E r \in {ClientQuery(last.client, caller, input, answer)} :
        /\ last' = [cmd |-> "query", caller |-> caller, res |-> r.res, sql |-> r.sql,
                    client |-> last.client]
        /\ UNCHANGED <<ledger, keystore, nextId>>

execute ==
    \E caller \in Tenants, input \in SqlInputs, answer \in ExecuteAnswers :
    \E r \in {ClientExecute(last.client, caller, input, answer)} :
        /\ last' = [cmd |-> "execute", caller |-> caller, res |-> r.res, sql |-> r.sql,
                    client |-> last.client]
        /\ UNCHANGED <<ledger, keystore, nextId>>

encrypt_columns ==
    \E caller \in Tenants, tbl \in Tables, f \in EncryptFailures :
    \E db_table \in DBTable(last.client.database_id) :
    \E r \in {EncryptColumns(last.client, keystore, caller, db_table, tbl, f)} :
        /\ last' = [cmd |-> "encrypt_columns", caller |-> caller, res |-> r.res, sql |-> r.sql,
                    client |-> last.client]
        /\ UNCHANGED <<ledger, keystore, nextId>>

NextClient == connect \/ query \/ execute \/ encrypt_columns

SpecClient == InitClient /\ [][NextClient]_vars

\* C11: a session call (connect, query, execute, encrypt_columns) invoked by
\* an identity other than the profile's owning tenant returns an error, makes
\* no connection_open, query or execute call, and leaves the profile and its
\* connection handle unchanged.
C11_SessionCallsCheckOwner ==
    [][(last'.cmd \in SessionCalls /\ last'.caller # last.client.client_id)
       => (/\ ~last'.res.ok
           /\ last'.sql = <<>>
           /\ last'.client = last.client)]_vars

C11_Witness ==
    /\ last.cmd = "encrypt_columns"
    /\ last.caller # last.client.client_id
    /\ last.client.opaque_handle \in Handles
    /\ last.res = Err("Client ID mismatch")
    /\ last.sql = <<>>

\* the connection string of the claim: host and dbname, then the user segment
\* when user is non-empty, then the password segment when password is non-empty
ExpectedUri(details) ==
    "host=" \o details.host \o " dbname=" \o details.dbname
    \o (IF details.user = "" THEN "" ELSE " user=" \o details.user)
    \o (IF details.password = "" THEN "" ELSE " password=" \o details.password)

\* C13: connect by the owner opens exactly one connection, with the string
\* host/dbname/[user]/[password]; on success the returned handle is stored on
\* the in-memory profile, on failure an error is returned and the profile is
\* unchanged.
C13_ConnectionString ==
    [][(last'.cmd = "connect" /\ last'.caller = last.client.client_id)
       => (/\ Len(last'.sql) = 1
           /\ last'.sql[1].op = "connection_open"
           /\ last'.sql[1].arg = ExpectedUri(last.client.db_input_details)
           /\ last'.sql[1].ok = last'.opened.ok
           /\ IF last'.opened.ok
              THEN /\ last'.res.ok
                   /\ last'.client = [last.client EXCEPT !.opaque_handle = last'.opened.value]
              ELSE /\ ~last'.res.ok
                   /\ last'.client = last.client)]_vars

C13_Witness ==
    /\ last.cmd = "connect"
    /\ last.res.ok
    /\ last.client.db_input_details.user = ""
    /\ last.client.db_input_details.password = ""
    /\ last.client.opaque_handle \in Handles
    /\ last.sql[1].arg = "host=db1 dbname=orders"

\* ------------------------------------------------------ lifecycle properties
\* the stored profile records
Profiles == {id \in Persisted : IsClientValue(ledger[id])}

\* the profiles a completed add persisted: stored and in the registry list
Listed == {id \in Profiles : id \in Range(Registry)}

\* C12: a profile's master key lives exactly as long as the profile: the key
\* a persisted profile names is in the key store, and after a successful
\* delete of a profile the key that profile named is no longer in the key
\* store.
C12_MasterKeyLifetime ==
    [][/\ \A id \in Persisted :
            IsClientValue(ledger'[id]) => ledger'[id].master_key_name \in keystore'
       /\ (/\ last'.cmd = "sql_delete" /\ last'.res.ok
           /\ last'.database_id \in Profiles)
          => ledger[last'.database_id].master_key_name \notin keystore']_vars

\* a lookup on the profile id
LookupInput(id) ==
    [database_id |-> id, table |-> "products", encrypted_column |-> "name",
     values |-> <<"Laptop">>]

\* C15: while a profile that add persisted stays persisted its master-key reference does not
\* change, so build_encrypted_query on it with the same input produces the
\* same query before and after any command.
C15_MasterKeyStable ==
    [][\A id \in Listed :
          (ledger'[id] # Absent /\ IsClientValue(ledger'[id]))
          => (/\ ledger'[id].master_key_name = ledger[id].master_key_name
              /\ BuildEncryptedQuery(ledger'[id], keystore', LookupInput(id), NoFailure)
                 = BuildEncryptedQuery(ledger[id], keystore, LookupInput(id), NoFailure))]_vars

\* C16: the id a successful add returns is never the id of a profile that,
\* when add was called, was registered to another tenant; the profile stored under
\* the returned id belongs to the caller.
C16_AddHidesOtherTenants ==
    [][(last'.cmd = "db_setup" /\ last'.res.ok)
       => (/\ last'.res.value \in Listed
              => ledger[last'.res.value].client_id = last'.caller
           /\ ledger'[last'.res.value].client_id = last'.caller)]_vars

\* ------------------------------------------------------- session properties
\* C14: in the bulk update of encrypt_columns the column key and the IV of
\* every non-primary-key cell are derived with the name of the column the
\* cell was selected from: the request's primary key followed by its target
\* columns, in that order.
C14_DerivedWithSelectedColumn ==
    (EncryptRan /\ Calls("execute") # <<>> /\ Calls("execute")[1].ok)
    => LET stored == Calls("execute")[1].arg.values
           selected == <<last.db_table.primary_key>> \o last.db_table.columns
       IN  \A idx \in 1..Len(stored) : \A idy \in 2..Len(stored[idx]) :
              /\ "hex" \in DOMAIN stored[idx][idy]
              /\ stored[idx][idy].hex[2].key.column = selected[idy]
              /\ stored[idx][idy].hex[1].column = selected[idy]

SessionCommands == {"sql_query", "sql_execute", "execute_table_encryption", "read_encrypted_table"}

\* Client::load of the command's database_id succeeded for its caller (the
\* commands leave the ledger as it was when they loaded)
ProfileLoaded == ClientLoad(ledger, last.caller, last.database_id).ok

\* C17: in the four session commands every SQL query or execute call comes
\* after a successful profile load and a successful connection_open of the
\* same activation and uses the handle that connect stored; when the load or
\* the connect fails the command makes no query or execute call.
C17_LoadAndConnectFirst ==
    last.cmd \in SessionCommands
    => /\ ~ProfileLoaded => last.sql = <<>>
       /\ last.sql # <<>>
            => /\ ProfileLoaded
               /\ last.client = [ledger[last.database_id] EXCEPT
                                    !.opaque_handle = last.client.opaque_handle]
               /\ last.sql[1].op = "connection_open"
               /\ \A k \in 2..Len(last.sql) :
                     /\ last.sql[k].op \in {"query", "execute"}
                     /\ last.sql[1].ok
                     /\ last.sql[k].handle = last.client.opaque_handle
                     /\ last.sql[k].handle \in Handles

C17_Witness ==
    /\ last.cmd = "execute_table_encryption"
    /\ ProfileLoaded
    /\ Len(last.sql) = 1
    /\ ~last.sql[1].ok
    /\ ~last.res.ok

\* C18: every profile record stored in the ledger has an empty opaque_handle,
\* also after commands that connected the in-memory profile.
C18_HandleNeverPersisted ==
    \A id \in Profiles : ledger[id].opaque_handle = ""

C18_Witness ==
    /\ last.cmd = "sql_query"
    /\ last.res.ok
    /\ last.client.opaque_handle \in Handles
    /\ ledger[last.database_id].opaque_handle = ""
    /\ Calls("query") # <<>>

\* C19: sql_list, sql_query, sql_execute, execute_table_encryption and
\* read_encrypted_table leave the registry list, every stored profile record
\* and the key store as they were, whether they succeed or fail.
C19_ReadCommandsLeaveLedger ==
    [][last'.cmd \in SessionCommands \cup {"sql_list"}
       => (ledger' = ledger /\ keystore' = keystore)]_vars

C19_Witness ==
    /\ last.cmd = "execute_table_encryption"
    /\ last.reported
    /\ Calls("execute") # <<>>
    /\ ledger = Seed2.ledger

\* the row select of encrypt_columns succeeded and returned no row, and the
\* master key was loaded
SelectedNoRows ==
    /\ EncryptRan
    /\ Len(Calls("query")) = 2
    /\ Calls("query")[2].ok
    /\ last.read = <<>>
    /\ last.f.point # "loadKey"

\* C20: when the row select returns zero rows, encrypt_columns issues no SQL
\* execute and returns the error "No rows to update".
C20_EmptyTableIsError ==
    SelectedNoRows
    => (/\ last.res = Err("No rows to update")
        /\ Calls("execute") = <<>>
        /\ ~last.reported)

C20_Witness ==
    /\ SelectedNoRows
    /\ last.f = NoFailure
    /\ last.res = Err("No rows to update")

====
